---- MODULE Spec2Model ----
(***************************************************************************)
(* Job polling and result reconciliation of the bulk product scraper:      *)
(*   - the usePolling hook (hooks/use-polling),                            *)
(*   - the merge of a status snapshot into the local results               *)
(*     (handlePollSuccess of BulkUploadForm),                              *)
(*   - the submit / poll lifecycle of BulkUploadForm.                      *)
(* Three specifications share the variables:                               *)
(*   SpecPolling  one usePolling instance under an arbitrary host          *)
(*   SpecMerge    handlePollSuccess's merge applied to snapshot sequences  *)
(*   Spec         BulkUploadForm with its usePolling instance              *)
(***************************************************************************)
EXTENDS Integers, Sequences, FiniteSets, TLC

VARIABLES
    hook,           \* state and refs of the usePolling instance
    props,          \* props of the last committed render of usePolling
    inflight,       \* pollFn calls started and not yet settled
    nextFetch,      \* number of the next pollFn call
    exceeded,       \* Date.now() - startTimeRef.current > maxDuration
    calls,          \* how often onSuccess / onError were invoked
    stale,          \* calls that were outstanding when the poller was disabled
    event,          \* the last step the hook or the form took
    isScraping,     \* BulkUploadForm state
    excelData,      \* BulkUploadForm state: for each uploaded row, whether it maps
                    \* to a valid product (a brand and a name or code)
    jobId,          \* BulkUploadForm state: 0 is null
    renderedJobId,  \* jobId of the last committed render (pollJobStatus closes over it)
    jobIdRef,       \* BulkUploadForm ref
    scrapeProgress, \* BulkUploadForm state
    results,        \* BulkUploadForm state: the batch
    submit,         \* the Submit requests in flight: the Excel rows each one carries
    nextJob,        \* number of the next job the service accepts
    server,         \* the jobs of the scraping service
    terminalSeen,   \* the jobs a status response reported completed or failed for
    lastSnapshot,   \* the snapshot merged last
    lastChanged,    \* hasChanges of the last merge
    isRetryingAll,  \* BulkResultsTable prop: a retry-all is in flight
    retryingIndices,\* BulkResultsTable prop: the indices under retry
    retryJobs,      \* the retry jobs in flight
    backendStatus,  \* the job status the backend answers the status route with
    routeResponse   \* the response of the status route

hookVars == <<hook, props, inflight, nextFetch, exceeded, calls, stale>>
formVars == <<isScraping, excelData, jobId, renderedJobId, jobIdRef, scrapeProgress,
              results, submit, nextJob, server, terminalSeen>>
mergeVars == <<lastSnapshot, lastChanged>>
retryVars == <<isRetryingAll, retryingIndices, retryJobs>>
routeVars == <<backendStatus, routeResponse>>
vars == <<hook, props, inflight, nextFetch, exceeded, calls, stale, event,
          isScraping, excelData, jobId, renderedJobId, jobIdRef, scrapeProgress,
          results, submit, nextJob, server, terminalSeen, lastSnapshot, lastChanged,
          isRetryingAll, retryingIndices, retryJobs, backendStatus, routeResponse>>

Null == "null"

\* Most pollFn calls one behaviour starts.
MaxFetches == 4

(***************************************************************************)
(* usePolling                                                              *)
(***************************************************************************)

\* A timer ref is "null", "live" (holds a pending timer) or "fired" (holds the
\* id of a timeout that already ran). leaked counts pending timers no ref holds.
InitialHook ==
    [data |-> 0, error |-> Null, isPolling |-> FALSE,
     intervalRef |-> Null, timeoutRef |-> Null, initialTimeoutRef |-> Null,
     startTimeRef |-> Null, mountedRef |-> TRUE, isPollingRef |-> FALSE,
     enabledRef |-> FALSE, leaked |-> 0]

\* interval and maxDuration are durations; only their identity matters here.
DefaultInterval == "5000ms"

Intervals == {DefaultInterval, "10000ms"}

MaxDurations == {Null, "60000ms"}

DefaultProps == [enabled |-> FALSE, interval |-> DefaultInterval, maxDuration |-> Null]

stopPollingKeepsInitialTimeout(h) ==
    [h EXCEPT !.isPolling = FALSE, !.isPollingRef = FALSE,
              !.intervalRef = Null, !.timeoutRef = Null,
              !.startTimeRef = Null]

stopPolling(h) ==
    [h EXCEPT !.isPolling = FALSE, !.isPollingRef = FALSE,
              !.intervalRef = Null, !.timeoutRef = Null,
              !.initialTimeoutRef = Null, !.startTimeRef = Null]

Overwritten(ref) == IF ref = "live" THEN 1 ELSE 0

\* Body of the polling effect.
pollingEffect(h, p) ==
    IF ~p.enabled THEN stopPolling(h)
    ELSE IF h.isPollingRef \/ h.intervalRef # Null THEN h
    ELSE [h EXCEPT !.isPolling = TRUE,
                   !.startTimeRef = "set",
                   !.initialTimeoutRef = "live",
                   !.intervalRef = "live",
                   !.timeoutRef = IF p.maxDuration # Null THEN "live" ELSE @,
                   !.leaked = @ + Overwritten(h.initialTimeoutRef)
                                + (IF p.maxDuration # Null
                                   THEN Overwritten(h.timeoutRef) ELSE 0)]

PollingDepsChanged(p, q) ==
    \/ p.enabled # q.enabled
    \/ p.interval # q.interval
    \/ p.maxDuration # q.maxDuration

\* One commit of usePolling with props q after props p: the cleanups of the
\* effects whose dependencies changed, then the effects in source order.
commit(h, p, q) ==
    LET cleaned == IF PollingDepsChanged(p, q) THEN stopPolling(h) ELSE h
        synced == [cleaned EXCEPT !.enabledRef = q.enabled]
    IN IF PollingDepsChanged(p, q) THEN pollingEffect(synced, q) ELSE synced

unmount(h) == stopPolling([stopPolling(h) EXCEPT !.mountedRef = FALSE])

\* The guard at the head of poll().
CanPoll(h) == h.mountedRef /\ h.enabledRef /\ ~h.isPollingRef

NoTimerArmed ==
    /\ hook.intervalRef # "live"
    /\ hook.timeoutRef # "live"
    /\ hook.initialTimeoutRef # "live"
    /\ hook.leaked = 0

Ids(fs) == {f.id : f \in fs}

\* poll() up to its await: pollFnRef.current() is called for job j.
StartFetch(h, j) ==
    /\ nextFetch <= MaxFetches
    /\ hook' = [h EXCEPT !.isPollingRef = TRUE]
    /\ inflight' = inflight \cup {[id |-> nextFetch, job |-> j]}
    /\ nextFetch' = nextFetch + 1

\* The callback of the initial-delay timeout, for the job pollFn closes over.
InitialTimeoutFires(j) ==
    /\ hook.initialTimeoutRef = "live"
    /\ LET h == [hook EXCEPT !.initialTimeoutRef = "fired"]
       IN IF CanPoll(h)
          THEN StartFetch(h, j) /\ event' = [kind |-> "initialPoll", id |-> nextFetch]
          ELSE /\ hook' = h
               /\ event' = [kind |-> "initialSkip", id |-> 0]
               /\ UNCHANGED <<inflight, nextFetch>>
    /\ UNCHANGED <<props, exceeded, calls, stale>>

\* The callback of the interval.
IntervalTick(j) ==
    /\ hook.intervalRef = "live"
    /\ IF ~hook.mountedRef \/ ~hook.enabledRef
       THEN /\ hook' = stopPolling(hook)
            /\ event' = [kind |-> "tickStop", id |-> 0]
            /\ UNCHANGED <<inflight, nextFetch>>
       ELSE IF hook.isPollingRef
       THEN /\ event' = [kind |-> "tickSkip", id |-> 0]
            /\ UNCHANGED <<hook, inflight, nextFetch>>
       ELSE IF props.maxDuration # Null /\ hook.startTimeRef # Null /\ exceeded
       THEN /\ hook' = [stopPolling(hook) EXCEPT !.error = "timeout"]
            /\ event' = [kind |-> "tickTimeout", id |-> 0]
            /\ UNCHANGED <<inflight, nextFetch>>
       ELSE /\ StartFetch(hook, j)
            /\ event' = [kind |-> "tickPoll", id |-> nextFetch]
    /\ UNCHANGED <<props, exceeded, calls, stale>>

\* The callback of the max-duration timeout.
MaxDurationTimeout ==
    /\ hook.timeoutRef = "live"
    /\ exceeded
    /\ LET h == [hook EXCEPT !.timeoutRef = "fired"]
       IN hook' = IF h.mountedRef /\ h.enabledRef
                  THEN [stopPolling(h) EXCEPT !.error = "timeout"]
                  ELSE h
    /\ event' = [kind |-> "maxDurationTimeout", id |-> 0]
    /\ UNCHANGED <<props, inflight, nextFetch, exceeded, calls, stale>>

\* Time passes beyond maxDuration since startTimeRef.current.
TimePasses ==
    /\ props.maxDuration # Null
    /\ hook.startTimeRef # Null
    /\ ~exceeded
    /\ exceeded' = TRUE
    /\ event' = [kind |-> "time", id |-> 0]
    /\ UNCHANGED <<hook, props, inflight, nextFetch, calls, stale>>

resolvedIgnoresShouldStop(h, f, stop) ==
    IF ~h.mountedRef THEN [h EXCEPT !.isPollingRef = FALSE]
    ELSE [h EXCEPT !.data = f.id, !.error = Null, !.isPollingRef = FALSE]

\* poll() after its await resolved with a result for which shouldStop gives stop.
resolved(h, f, stop) ==
    IF ~h.mountedRef THEN [h EXCEPT !.isPollingRef = FALSE]
    ELSE LET got == [h EXCEPT !.data = f.id, !.error = Null]
         IN [(IF stop THEN stopPolling(got) ELSE got) EXCEPT !.isPollingRef = FALSE]

rejectedStopsPolling(h, f) ==
    IF ~h.mountedRef THEN [h EXCEPT !.isPollingRef = FALSE]
    ELSE [stopPolling(h) EXCEPT !.error = "fetch"]

\* poll() after its await rejected.
rejected(h, f) ==
    IF ~h.mountedRef THEN [h EXCEPT !.isPollingRef = FALSE]
    ELSE [h EXCEPT !.error = "fetch", !.isPollingRef = FALSE]

HookResolves(f, stop) ==
    /\ f \in inflight
    /\ hook' = resolved(hook, f, stop)
    /\ inflight' = inflight \ {f}
    /\ stale' = stale \ {f.id}
    /\ calls' = IF hook.mountedRef THEN [calls EXCEPT !.onSuccess = @ + 1] ELSE calls
    /\ event' = [kind |-> IF stop THEN "resolveStop" ELSE "resolve", id |-> f.id]
    /\ UNCHANGED <<props, nextFetch, exceeded>>

HookRejects(f) ==
    /\ f \in inflight
    /\ hook' = rejected(hook, f)
    /\ inflight' = inflight \ {f}
    /\ stale' = stale \ {f.id}
    /\ calls' = IF hook.mountedRef THEN [calls EXCEPT !.onError = @ + 1] ELSE calls
    /\ event' = [kind |-> "reject", id |-> f.id]
    /\ UNCHANGED <<props, nextFetch, exceeded>>

\* A render of the host commits props q.
HookCommit(q) ==
    /\ hook.mountedRef
    /\ hook' = commit(hook, props, q)
    /\ props' = q
    /\ exceeded' = IF PollingDepsChanged(props, q) THEN FALSE ELSE exceeded
    /\ stale' = IF props.enabled /\ ~q.enabled THEN stale \cup Ids(inflight) ELSE stale
    /\ UNCHANGED <<inflight, nextFetch, calls>>

HookUnmount ==
    /\ hook.mountedRef
    /\ hook' = unmount(hook)
    /\ exceeded' = FALSE
    /\ event' = [kind |-> "unmount", id |-> 0]
    /\ UNCHANGED <<props, inflight, nextFetch, calls, stale>>
(***************************************************************************)
(* handlePollSuccess: the merge of a status snapshot into results          *)
(***************************************************************************)

\* Most slots of a batch, and most entries of a snapshot.
MaxSlots == 2

\* A slot is a ScrapeResult. The merge compares products with !==, by
\* reference, and every parsed response holds objects of its own: product is
\* NoProduct (undefined), "last" (the object the response parsed last holds) or
\* "earlier" (an object of an earlier response). error is Null (undefined) or
\* the message. originalExcelRow is 0 (undefined) or the Excel row.
NoProduct == "undefined"

Statuses == {"pending", "success", "error"}

\* originalData is the mapped product of Excel row item, as the form built it
\* ("form") or as the status route rebuilt it from the backend's original_products,
\* with the same content ("same") or not ("altered").
Echoes == {"same", "altered"}

OriginalData(item, echo) ==
    [item |-> item, by |-> IF echo = "altered" THEN "route" ELSE "form"]

ItemError == "Unknown error"

\* Slot i of the batch handleStartScraping builds, for the product of Excel row r.
InitialSlot(r) ==
    [status |-> "pending", product |-> NoProduct, error |-> Null,
     originalData |-> OriginalData(r, "same"), originalExcelRow |-> r]

\* Entry of a status response: the route returns status, product or error,
\* and originalData; it never returns originalExcelRow.
SnapshotEntry(status, data) ==
    [status |-> status,
     product |-> IF status = "success" THEN "last" ELSE NoProduct,
     error |-> IF status = "error" THEN ItemError ELSE Null,
     originalData |-> data,
     originalExcelRow |-> 0]

\* A snapshot is the results array of one parsed status response: statuses is
\* the status of each entry, items and echo the originalData of each entry.
NoSnapshot == [echo |-> "same", statuses |-> <<>>, items |-> <<>>]

EntryOf(snap, i) ==
    SnapshotEntry(snap.statuses[i], OriginalData(snap.items[i], snap.echo))

\* The results when another response has been parsed: the objects of the
\* response parsed before it are objects of an earlier response now.
NewParse(res) ==
    [i \in DOMAIN res |-> [res[i] EXCEPT !.product = IF @ = "last" THEN "earlier" ELSE @]]

\* a || b on originalExcelRow.
OrRow(a, b) == IF a # 0 THEN a ELSE b

\* The resolved branch compares status, product and error of the two results.
Differs(existing, result) ==
    \/ existing.status # result.status
    \/ existing.product # result.product
    \/ existing.error # result.error

Put(res, i, slot) ==
    IF i <= Len(res) THEN [res EXCEPT ![i] = slot] ELSE Append(res, slot)

\* Mutants of MergeEntry: the pending branch overwriting a resolved slot, the
\* last branch pushing without its index test, the spread losing originalExcelRow.
MergeEntryRegresses(acc, result, i) ==
    LET res == acc.results
        has == i <= Len(res)
    IN IF result.status # "pending"
       THEN IF ~has \/ Differs(res[i], result)
            THEN [results |-> Put(res, i,
                                  [result EXCEPT !.originalExcelRow =
                                      IF has THEN OrRow(res[i].originalExcelRow, @) ELSE @]),
                  changed |-> TRUE]
            ELSE acc
       ELSE IF has
       THEN [results |-> [res EXCEPT ![i] =
                             [result EXCEPT !.originalExcelRow =
                                 OrRow(res[i].originalExcelRow, @)]],
             changed |-> TRUE]
       ELSE [results |-> Append(res, result), changed |-> TRUE]

MergeEntryAlwaysPushes(acc, result, i) ==
    LET res == acc.results
        has == i <= Len(res)
    IN IF result.status # "pending"
       THEN IF ~has \/ Differs(res[i], result)
            THEN [results |-> Put(res, i,
                                  [result EXCEPT !.originalExcelRow =
                                      IF has THEN OrRow(res[i].originalExcelRow, @) ELSE @]),
                  changed |-> TRUE]
            ELSE acc
       ELSE IF has /\ res[i].status = "pending"
       THEN [results |-> [res EXCEPT ![i] =
                             [result EXCEPT !.originalExcelRow =
                                 OrRow(res[i].originalExcelRow, @)]],
             changed |-> TRUE]
       ELSE [results |-> Append(res, result), changed |-> TRUE]

MergeEntryDropsRow(acc, result, i) ==
    LET res == acc.results
        has == i <= Len(res)
    IN IF result.status # "pending"
       THEN IF ~has \/ Differs(res[i], result)
            THEN [results |-> Put(res, i, result), changed |-> TRUE]
            ELSE acc
       ELSE IF has
       THEN IF res[i].status = "pending"
            THEN [results |-> [res EXCEPT ![i] = result], changed |-> TRUE]
            ELSE acc
       ELSE [results |-> Append(res, result), changed |-> TRUE]

\* One call of the forEach callback, for entry i (index i - 1) of the snapshot.
MergeEntry(acc, result, i) ==
    LET res == acc.results
        has == i <= Len(res)
    IN IF result.status # "pending"
       THEN IF ~has \/ Differs(res[i], result)
            THEN [results |-> Put(res, i,
                                  [result EXCEPT !.originalExcelRow =
                                      IF has THEN OrRow(res[i].originalExcelRow, @) ELSE @]),
                  changed |-> TRUE]
            ELSE acc
       ELSE IF has
       THEN IF res[i].status = "pending"
            THEN [results |-> [res EXCEPT ![i] =
                                  [result EXCEPT !.originalExcelRow =
                                      OrRow(res[i].originalExcelRow, @)]],
                  changed |-> TRUE]
            ELSE acc
       ELSE [results |-> Append(res, result), changed |-> TRUE]

RECURSIVE MergeFrom(_, _, _)
MergeFrom(acc, snap, i) ==
    IF i > Len(snap.statuses) THEN acc
    ELSE MergeFrom(MergeEntry(acc, EntryOf(snap, i), i), snap, i + 1)

\* Mutant of MergeResults: the batch is cut to the length of the snapshot.
MergeResultsTruncates(prev, snap) ==
    LET m == MergeFrom([results |-> prev, changed |-> FALSE], snap, 1)
    IN IF m.changed
       THEN [m EXCEPT !.results = SubSeq(@, 1, Len(snap.statuses))]
       ELSE [results |-> prev, changed |-> FALSE]

\* The updater handlePollSuccess passes to setResults: the merged results and
\* hasChanges; the updater returns prev itself when hasChanges is false.
MergeResults(prev, snap) ==
    LET m == MergeFrom([results |-> prev, changed |-> FALSE], snap, 1)
    IN IF m.changed THEN m ELSE [results |-> prev, changed |-> FALSE]


(***************************************************************************)
(* BulkUploadForm                                                          *)
(***************************************************************************)

\* Most jobs the service accepts in one behaviour.
MaxJobs == 2

\* The files a user uploads, of MaxSlots rows: for each row, whether it maps
\* to a valid product. The first row is invalid and the invalid rows of a file
\* come first, so that a slot and the Excel row it came from have different
\* numbers.
Uploads == {[i \in 1..MaxSlots |-> i > k] : k \in 1..MaxSlots}

\* filteredValidProductsWithIndices: the rows of the valid products, in order.
RECURSIVE ValidRowsUpTo(_, _)
ValidRowsUpTo(rows, n) ==
    IF n = 0 THEN <<>>
    ELSE IF rows[n] THEN Append(ValidRowsUpTo(rows, n - 1), n)
    ELSE ValidRowsUpTo(rows, n - 1)

ValidRows(rows) == ValidRowsUpTo(rows, Len(rows))

\* Mutant of InitialResults: slot k takes the k-th Excel row.
InitialResultsByPosition(valid) == [k \in 1..Len(valid) |-> InitialSlot(k)]

\* initialResults: one pending slot per valid product.
InitialResults(valid) == [k \in 1..Len(valid) |-> InitialSlot(valid[k])]

\* How POST /api/scrape/bulk answers a Submit: the request is rejected in
\* transport, the route answers not OK, the route answers OK with { results }
\* (frontend/app/api/scrape/bulk/route.ts), or OK with { job_id } (the routes
\* that create a backend job).
BulkAnswers == {"rejected", "notOk", "okResults", "okJobId"}

OkAnswers == {"okResults", "okJobId"}

\* The error the try block of handleStartScraping throws or meets on an answer.
SubmitError(answer) ==
    CASE answer = "rejected" -> "Failed to fetch"
      [] answer = "notOk" -> "Failed to start bulk scraping"
      [] answer = "okResults" -> "No job ID returned"
      [] OTHER -> Null

SubmitErrors == {SubmitError(a) : a \in BulkAnswers \ {"okJobId"}}

Without(seq, k) == [i \in 1..(Len(seq) - 1) |-> IF i < k THEN seq[i] ELSE seq[i + 1]]

\* enabled: !!jobId && isScraping, interval: 5000, no maxDuration.
FormProps(j, s) ==
    [enabled |-> j # 0 /\ s, interval |-> DefaultInterval, maxDuration |-> Null]

\* A state update of the form has not been rendered and committed yet.
RenderPending == jobId # renderedJobId \/ FormProps(jobId, isScraping) # props

\* The commit of a render of the form with state jobId = j, isScraping = s: the
\* effect on jobIdRef, then the effects of usePolling.
FormCommit(j, s) ==
    /\ HookCommit(FormProps(j, s))
    /\ renderedJobId' = j
    /\ jobIdRef' = IF j # renderedJobId THEN j ELSE jobIdRef

handleFileUpload ==
    /\ \E rows \in Uploads : excelData' = rows
    /\ UNCHANGED <<hookVars, event, isScraping, jobId, renderedJobId, jobIdRef, scrapeProgress,
                   results, submit, nextJob, terminalSeen, server, mergeVars, retryVars, routeVars>>

\* handleStartScraping if the branch without valid products returned without
\* setIsScraping(false).
handleStartScrapingStaysBusy ==
    /\ ~isScraping
    /\ ~RenderPending
    /\ Len(excelData) > 0
    /\ LET valid == ValidRows(excelData)
       IN IF valid = <<>>
          THEN /\ isScraping' = TRUE
               /\ results' = <<>>
               /\ submit' = submit
               /\ event' = [kind |-> "noValidProducts", id |-> 0]
               /\ FormCommit(0, TRUE)
          ELSE /\ isScraping' = TRUE
               /\ results' = InitialResults(valid)
               /\ submit' = Append(submit, valid)
               /\ event' = [kind |-> "submit", id |-> 0]
               /\ FormCommit(0, TRUE)
    /\ scrapeProgress' = 0
    /\ jobId' = 0
    /\ UNCHANGED <<excelData, nextJob, terminalSeen, server, mergeVars, retryVars, routeVars>>

\* handleStartScraping up to its await, and the render the click flushes.
\* The Start button is disabled={isScraping} in the committed render.
handleStartScraping ==
    /\ ~isScraping
    /\ ~RenderPending
    /\ Len(excelData) > 0
    /\ LET valid == ValidRows(excelData)
       IN IF valid = <<>>
          THEN /\ isScraping' = FALSE
               /\ results' = <<>>
               /\ submit' = submit
               /\ event' = [kind |-> "noValidProducts", id |-> 0]
               /\ FormCommit(0, FALSE)
          ELSE /\ isScraping' = TRUE
               /\ results' = InitialResults(valid)
               /\ submit' = Append(submit, valid)
               /\ event' = [kind |-> "submit", id |-> 0]
               /\ FormCommit(0, TRUE)
    /\ scrapeProgress' = 0
    /\ jobId' = 0
    /\ UNCHANGED <<excelData, nextJob, terminalSeen, server, mergeVars, retryVars, routeVars>>

NewJob(items) ==
    [status |-> "running", statuses |-> [i \in DOMAIN items |-> "pending"],
     items |-> items]

\* The Submit request k is answered OK with a job id.
SubmitAccepted ==
    /\ nextJob <= MaxJobs
    /\ \E k \in 1..Len(submit) :
          /\ server' = Append(server, NewJob(submit[k]))
          /\ submit' = Without(submit, k)
    /\ jobId' = nextJob
    /\ nextJob' = nextJob + 1
    /\ event' = [kind |-> "submitAccepted", id |-> nextJob]
    /\ UNCHANGED <<hookVars, isScraping, excelData, renderedJobId, jobIdRef,
                   scrapeProgress, results, terminalSeen, mergeVars, retryVars, routeVars>>

MarkPendingFailed(res, msg) ==
    [i \in DOMAIN res |->
        IF res[i].status = "pending"
        THEN [res[i] EXCEPT !.status = "error", !.error = msg]
        ELSE res[i]]

\* The Submit request k fails: the catch block of handleStartScraping.
SubmitFails ==
    /\ \E k \in 1..Len(submit), a \in BulkAnswers \ {"okJobId"} :
          /\ results' = MarkPendingFailed(results, SubmitError(a))
          /\ submit' = Without(submit, k)
          /\ event' = [kind |-> "submitFailed", id |-> 0,
                       message |-> SubmitError(a), answer |-> a]
    /\ isScraping' = FALSE
    /\ jobId' = 0
    /\ UNCHANGED <<hookVars, excelData, renderedJobId, jobIdRef, scrapeProgress,
                   nextJob, terminalSeen, server, mergeVars, retryVars, routeVars>>

Render ==
    /\ RenderPending
    /\ FormCommit(jobId, isScraping)
    /\ event' = [kind |-> "render", id |-> 0]
    /\ UNCHANGED <<isScraping, excelData, jobId, scrapeProgress, results, submit,
                   nextJob, terminalSeen, server, mergeVars, retryVars, routeVars>>

\* The form can still fetch the status of job j: a job the form holds no id of
\* and has no status fetch outstanding for is never looked at again.
Observed(j) == j = jobId \/ j = renderedJobId \/ \E f \in inflight : f.job = j

\* The service resolves an item of a running job.
ServerResolvesItem ==
    /\ \E j \in 1..Len(server), i \in 1..MaxSlots, outcome \in {"success", "error"} :
          /\ Observed(j)
          /\ server[j].status = "running"
          /\ i <= Len(server[j].statuses)
          /\ server[j].statuses[i] = "pending"
          /\ server' = [server EXCEPT ![j].statuses[i] = outcome]
    /\ UNCHANGED <<hookVars, event, isScraping, excelData, jobId, renderedJobId, jobIdRef,
                   scrapeProgress, results, submit, nextJob, terminalSeen, mergeVars, retryVars, routeVars>>

\* A running job ends: completed when every item is resolved, or failed.
ServerEndsJob ==
    /\ \E j \in 1..Len(server), end \in {"completed", "failed"} :
          /\ Observed(j)
          /\ server[j].status = "running"
          /\ end = "completed" =>
                \A i \in 1..Len(server[j].statuses) : server[j].statuses[i] # "pending"
          /\ server' = [server EXCEPT ![j].status = end]
    /\ UNCHANGED <<hookVars, event, isScraping, excelData, jobId, renderedJobId, jobIdRef,
                   scrapeProgress, results, submit, nextJob, terminalSeen, mergeVars, retryVars, routeVars>>

ResolvedCount(statuses) == Cardinality({i \in DOMAIN statuses : statuses[i] # "pending"})

\* The response of GET /api/scrape/jobs/[jobId] for a job of the service.
StatusResponse(job) ==
    [status |-> job.status,
     progress |-> (ResolvedCount(job.statuses) * 100) \div Len(job.statuses),
     snapshot |-> [echo |-> lastSnapshot.echo, statuses |-> job.statuses, items |-> job.items]]

shouldStopPolling(data) == data.status = "completed" \/ data.status = "failed"

\* handlePollSuccess(data) if only a completed job ended the lifecycle.
handlePollSuccessKeepsFailedJob(data) ==
    IF jobIdRef = 0
    THEN UNCHANGED <<isScraping, jobId, jobIdRef, scrapeProgress, results, mergeVars>>
    ELSE LET m == MergeResults(NewParse(results), data.snapshot)
         IN /\ results' = m.results
            /\ UNCHANGED mergeVars
            /\ scrapeProgress' = data.progress
            /\ IF data.status = "completed"
               THEN isScraping' = FALSE /\ jobId' = 0 /\ jobIdRef' = 0
               ELSE UNCHANGED <<isScraping, jobId, jobIdRef>>

\* handlePollSuccess(data).
handlePollSuccess(data) ==
    IF jobIdRef = 0
    THEN UNCHANGED <<isScraping, jobId, jobIdRef, scrapeProgress, results, mergeVars>>
    ELSE LET m == MergeResults(NewParse(results), data.snapshot)
         IN /\ results' = m.results
            /\ UNCHANGED mergeVars
            /\ scrapeProgress' = data.progress
            /\ IF data.status = "completed" \/ data.status = "failed"
               THEN isScraping' = FALSE /\ jobId' = 0 /\ jobIdRef' = 0
               ELSE UNCHANGED <<isScraping, jobId, jobIdRef>>

\* handlePollError(err).
handlePollError ==
    /\ isScraping' = FALSE
    /\ jobId' = 0
    /\ UNCHANGED <<jobIdRef, scrapeProgress, results, mergeVars>>

PollInitial ==
    /\ InitialTimeoutFires(renderedJobId)
    /\ UNCHANGED <<formVars, mergeVars, retryVars, routeVars>>

PollTick ==
    /\ IntervalTick(renderedJobId)
    /\ UNCHANGED <<formVars, mergeVars, retryVars, routeVars>>

\* A status fetch resolves with the response of the route.
PollResolves ==
    /\ \E f \in inflight :
          LET data == StatusResponse(server[f.job])
          IN /\ HookResolves(f, shouldStopPolling(data))
             /\ handlePollSuccess(data)
             /\ terminalSeen' = IF shouldStopPolling(data)
                                THEN terminalSeen \cup {f.job} ELSE terminalSeen
    /\ UNCHANGED <<excelData, renderedJobId, submit, nextJob, server, retryVars, routeVars>>

\* A status fetch fails: a transport error, a non-OK response, a decode error.
PollRejects ==
    /\ \E f \in inflight : HookRejects(f)
    /\ handlePollError
    /\ UNCHANGED <<excelData, renderedJobId, submit, nextJob, terminalSeen, server, retryVars, routeVars>>

(***************************************************************************)
(* GET /api/scrape/jobs/[jobId]: the status route                          *)
(***************************************************************************)

\* An entry of the backend's results: null, or a result with a status, with
\* or without a product, with or without an error message.
NullResult == [status |-> Null, product |-> FALSE, error |-> Null]

BackendError == "Product not found"

BackendResults ==
    {NullResult}
    \cup {[status |-> "success", product |-> p, error |-> Null] : p \in BOOLEAN}
    \cup {[status |-> "error", product |-> FALSE, error |-> m] : m \in {Null, BackendError}}

\* The job statuses of the backend: status and results.
BackendStatuses ==
    {[status |-> st, results |-> r] :
        st \in {"running", "completed", "failed"},
        r \in UNION {[1..n -> BackendResults] : n \in 0..MaxSlots}}

NoBackendStatus == [status |-> Null, results |-> <<>>]

NoResponse == [status |-> Null, results |-> <<>>]

ProcessingError == "Failed to process product data"

\* Mutant of mapResult: a result in error without a message is held back.
mapResultHoldsSilentError(backendResult, index) ==
    IF backendResult = NullResult \/ (backendResult.status = "error" /\ backendResult.error = Null)
    THEN [status |-> "pending", product |-> NoProduct, error |-> Null, originalData |-> index]
    ELSE IF backendResult.status = "success" /\ backendResult.product
    THEN [status |-> "success", product |-> "partial", error |-> Null, originalData |-> index]
    ELSE [status |-> "error", product |-> NoProduct,
          error |-> IF backendResult.error # Null THEN backendResult.error ELSE ItemError,
          originalData |-> index]

\* The callback of backendStatus.results.map: originalData is built from
\* original_products[index].
mapResult(backendResult, index) ==
    IF backendResult = NullResult
    THEN [status |-> "pending", product |-> NoProduct, error |-> Null, originalData |-> index]
    ELSE IF backendResult.status = "success" /\ backendResult.product
    THEN [status |-> "success", product |-> "partial", error |-> Null, originalData |-> index]
    ELSE [status |-> "error", product |-> NoProduct,
          error |-> IF backendResult.error # Null THEN backendResult.error ELSE ItemError,
          originalData |-> index]

\* The callback of the translation step; throws tells whether
\* mapProductToProductData throws for this result.
translateResult(result, backendResult, throws) ==
    IF result.status = "success" /\ result.product # NoProduct /\ backendResult.product
    THEN IF throws
         THEN [result EXCEPT !.status = "error", !.error = ProcessingError]
         ELSE [result EXCEPT !.product = "translated"]
    ELSE result

\* The body of the 200 response of GET.
GET(backend, throwsAt) ==
    [status |-> backend.status,
     results |-> [i \in DOMAIN backend.results |->
                     translateResult(mapResult(backend.results[i], i), backend.results[i],
                                     i \in throwsAt)]]

(***************************************************************************)
(* SpecPolling: one usePolling instance, its host free to change the props *)
(***************************************************************************)

InitCommon ==
    /\ hook = InitialHook
    /\ props = DefaultProps
    /\ inflight = {}
    /\ nextFetch = 1
    /\ exceeded = FALSE
    /\ calls = [onSuccess |-> 0, onError |-> 0]
    /\ stale = {}
    /\ event = [kind |-> "init", id |-> 0]
    /\ isScraping = FALSE
    /\ jobId = 0
    /\ jobIdRef = 0
    /\ renderedJobId = 0
    /\ excelData = <<>>
    /\ server = <<>>
    /\ scrapeProgress = 0
    /\ submit = <<>>
    /\ nextJob = 1
    /\ terminalSeen = {}
    /\ lastChanged = FALSE
    /\ isRetryingAll = FALSE
    /\ retryingIndices = {}
    /\ retryJobs = {}
    /\ routeResponse = NoResponse

InitPolling ==
    /\ InitCommon
    /\ results = <<>>
    /\ lastSnapshot = NoSnapshot
    /\ backendStatus = NoBackendStatus

SetProps ==
    /\ \E e \in BOOLEAN, i \in Intervals, m \in MaxDurations :
          LET q == [enabled |-> e, interval |-> i, maxDuration |-> m]
          IN /\ q # props
             /\ HookCommit(q)
             /\ event' = [kind |-> IF ~e THEN "disable" ELSE "props", id |-> 0]
    /\ UNCHANGED <<formVars, mergeVars, retryVars, routeVars>>

InitialTimeout == InitialTimeoutFires(0) /\ UNCHANGED <<formVars, mergeVars, retryVars, routeVars>>

Tick == IntervalTick(0) /\ UNCHANGED <<formVars, mergeVars, retryVars, routeVars>>

DurationTimeout == MaxDurationTimeout /\ UNCHANGED <<formVars, mergeVars, retryVars, routeVars>>

Clock == TimePasses /\ UNCHANGED <<formVars, mergeVars, retryVars, routeVars>>

FetchResolves ==
    /\ \E f \in inflight, stop \in BOOLEAN : HookResolves(f, stop)
    /\ UNCHANGED <<formVars, mergeVars, retryVars, routeVars>>

FetchRejects ==
    /\ \E f \in inflight : HookRejects(f)
    /\ UNCHANGED <<formVars, mergeVars, retryVars, routeVars>>

Unmount == HookUnmount /\ UNCHANGED <<formVars, mergeVars, retryVars, routeVars>>

NextPolling ==
    \/ SetProps
    \/ InitialTimeout
    \/ Tick
    \/ DurationTimeout
    \/ Clock
    \/ FetchResolves
    \/ FetchRejects
    \/ Unmount

SpecPolling == InitPolling /\ [][NextPolling]_vars

(***************************************************************************)
(* SpecMerge: the merge applied to every sequence of snapshots             *)
(***************************************************************************)

\* The responses of a status stream whose route echoes originalData as echo.
Snapshots(echo) ==
    {[echo |-> echo, statuses |-> s, items |-> [i \in DOMAIN s |-> i]] :
        s \in UNION {[1..n -> Statuses] : n \in 1..MaxSlots}}

InitMerge ==
    /\ InitCommon
    /\ \E n \in 1..MaxSlots : results = [i \in 1..n |-> InitialSlot(i)]
    /\ \E d \in Echoes : lastSnapshot = [NoSnapshot EXCEPT !.echo = d]
    /\ backendStatus = NoBackendStatus

\* handlePollSuccess merges a newly parsed snapshot.
Merge ==
    /\ \E snap \in Snapshots(lastSnapshot.echo) :
          LET m == MergeResults(NewParse(results), snap)
          IN /\ results' = m.results
             /\ lastChanged' = m.changed
             /\ lastSnapshot' = snap
             /\ event' = [kind |-> "merge", id |-> 0]
    /\ UNCHANGED <<hookVars, isScraping, excelData, jobId, renderedJobId, jobIdRef,
                   scrapeProgress, submit, nextJob, terminalSeen, server, retryVars, routeVars>>

NextMerge == Merge

SpecMerge == InitMerge /\ [][NextMerge]_vars

(***************************************************************************)
(* Spec: BulkUploadForm with its usePolling instance and the service       *)
(***************************************************************************)

Init ==
    /\ InitCommon
    /\ results = <<>>
    /\ \E d \in Echoes : lastSnapshot = [NoSnapshot EXCEPT !.echo = d]
    /\ backendStatus = NoBackendStatus

Next ==
    \/ handleFileUpload
    \/ handleStartScraping
    \/ SubmitAccepted
    \/ SubmitFails
    \/ Render
    \/ ServerResolvesItem
    \/ ServerEndsJob
    \/ PollInitial
    \/ PollTick
    \/ PollResolves
    \/ PollRejects

Spec == Init /\ [][Next]_vars

\* The form when every status fetch returns successfully.
NextSunny ==
    \/ handleFileUpload
    \/ handleStartScraping
    \/ SubmitAccepted
    \/ SubmitFails
    \/ Render
    \/ ServerResolvesItem
    \/ ServerEndsJob
    \/ PollInitial
    \/ PollTick
    \/ PollResolves

\* Renders are committed, timers fire, and fetches return.
SpecSunnyFair ==
    /\ Init
    /\ [][NextSunny]_vars
    /\ WF_vars(Render)
    /\ WF_vars(PollInitial)
    /\ WF_vars(PollTick)
    /\ WF_vars(PollResolves)

(***************************************************************************)
(* SpecRoute: the status route applied to every job status of the backend  *)
(***************************************************************************)

InitRoute ==
    /\ InitCommon
    /\ results = <<>>
    /\ lastSnapshot = NoSnapshot
    /\ backendStatus \in BackendStatuses

\* The route answers a status request.
RouteAnswers ==
    /\ \E throwsAt \in SUBSET (1..MaxSlots) : routeResponse' = GET(backendStatus, throwsAt)
    /\ UNCHANGED <<hookVars, event, formVars, mergeVars, retryVars, backendStatus>>

NextRoute == RouteAnswers

SpecRoute == InitRoute /\ [][NextRoute]_vars

(***************************************************************************)
(* SpecRetry: BulkResultsTable and the retry handlers behind its props     *)
(***************************************************************************)

\* Slots of a batch under retry.
RetrySlots == 4

\* Most status polls of one retry job: the iteration cap.
RetryPollCap == 2

\* What the retry handlers leave alone.
retryFrame == <<hookVars, excelData, jobId, renderedJobId, jobIdRef, scrapeProgress,
                submit, nextJob, server, terminalSeen, mergeVars, routeVars>>

errorCount(res) == Cardinality({i \in DOMAIN res : res[i].status = "error"})

\* The Retry button of row index is rendered (onRetryOne is passed).
RetryOneShown(res, index) ==
    \/ res[index].status = "error"
    \/ res[index].status = "pending" /\ index \in retryingIndices

\* disabled of the Retry button of row index.
RetryOneDisabledIgnoresRegistry(index) == isScraping \/ isRetryingAll

RetryOneDisabledIgnoresScraping(index) == isRetryingAll \/ index \in retryingIndices

RetryOneDisabled(index) == isScraping \/ isRetryingAll \/ index \in retryingIndices

\* The "Retry all errors" button is rendered (onRetryAll is passed).
RetryAllShown(res) == errorCount(res) > 0

\* disabled of the "Retry all errors" button.
RetryAllDisabledIgnoresScraping == isRetryingAll \/ retryingIndices # {}

RetryAllDisabled == isScraping \/ isRetryingAll \/ retryingIndices # {}

\* The indices a retry job covers.
Covered(job) == {job.indexMap[k] : k \in DOMAIN job.indexMap}

\* A retry job in flight: its index map, whether its Submit is answered, and
\* the status polls made so far.
NewRetryJob(kind, indexMap) ==
    [kind |-> kind, indexMap |-> indexMap, phase |-> "submit", polls |-> 0]

\* Retry jobs are named by key: 0 is the retry-all job, i the retry of index i.
KeyOf(job) == IF job.kind = "all" THEN 0 ELSE job.indexMap[1]

\* The error slots of the batch, in batch order: the captured index map.
RECURSIVE ErrorIndicesUpTo(_, _)
ErrorIndicesUpTo(res, n) ==
    IF n = 0 THEN <<>>
    ELSE IF res[n].status = "error" THEN Append(ErrorIndicesUpTo(res, n - 1), n)
    ELSE ErrorIndicesUpTo(res, n - 1)

ErrorIndices(res) == ErrorIndicesUpTo(res, Len(res))

\* onRetryOne(index): the index enters the registry, the slot is marked
\* pending (a pending slot carries no error), a one-item job is submitted.
handleRetryOne(index) ==
    /\ retryingIndices' = retryingIndices \cup {index}
    /\ results' = [results EXCEPT ![index].status = "pending", ![index].error = Null]
    /\ retryJobs' = retryJobs \cup {NewRetryJob("one", <<index>>)}
    /\ event' = [kind |-> "retryOne", id |-> index]
    /\ UNCHANGED <<isScraping, isRetryingAll>>

\* A click on the Retry button of row index.
RetryOneClick(index) ==
    /\ index \in DOMAIN results
    /\ RetryOneShown(results, index)
    /\ ~RetryOneDisabled(index)
    /\ handleRetryOne(index)
    /\ UNCHANGED retryFrame

\* onRetryAll(): every slot in error is collected, with the index map from
\* the position in the retry job to the index in the batch.
handleRetryAll ==
    /\ isRetryingAll' = TRUE
    /\ retryJobs' = retryJobs \cup {NewRetryJob("all", ErrorIndices(results))}
    /\ event' = [kind |-> "retryAll", id |-> 0]
    /\ UNCHANGED <<isScraping, results, retryingIndices>>

\* A click on the "Retry all errors" button.
RetryAllClick ==
    /\ RetryAllShown(results)
    /\ ~RetryAllDisabled
    /\ handleRetryAll
    /\ UNCHANGED retryFrame

RetrySubmitError == "Failed to fetch"
RetryJobError == "Job failed"
RetryTimeoutError == "Retry timed out"

\* The slots a retry job covers end in error with one message.
FailCovered(res, job, msg) ==
    [k \in DOMAIN res |->
        IF k \in Covered(job) THEN [res[k] EXCEPT !.status = "error", !.error = msg]
        ELSE res[k]]

\* Position of batch index k in the index map.
PositionOf(indexMap, k) == CHOOSE i \in DOMAIN indexMap : indexMap[i] = k

\* Mutant of Splice: result i written to batch index i.
SplicePositional(res, indexMap, outcomes) ==
    [k \in DOMAIN res |->
        IF k \in DOMAIN outcomes
        THEN [SnapshotEntry(outcomes[k], res[k].originalData)
                 EXCEPT !.originalExcelRow = res[k].originalExcelRow]
        ELSE res[k]]

\* Result i of the retry job is written to batch index indexMap[i]; the slot
\* keeps its originalExcelRow.
Splice(res, indexMap, outcomes) ==
    [k \in DOMAIN res |->
        IF \E i \in DOMAIN indexMap : indexMap[i] = k
        THEN [SnapshotEntry(outcomes[PositionOf(indexMap, k)], res[k].originalData)
                 EXCEPT !.originalExcelRow = res[k].originalExcelRow]
        ELSE res[k]]

\* Mutant of Leave: the retry ends and its index stays in the registry.
LeaveKeepsIndex(job) ==
    /\ retryJobs' = retryJobs \ {job}
    /\ retryingIndices' = retryingIndices
    /\ isRetryingAll' = IF job.kind = "all" THEN FALSE ELSE isRetryingAll

\* The retry job is over: its index leaves the registry, or the retry-all
\* flag falls.
Leave(job) ==
    /\ retryJobs' = retryJobs \ {job}
    /\ retryingIndices' = IF job.kind = "one" THEN retryingIndices \ Covered(job)
                          ELSE retryingIndices
    /\ isRetryingAll' = IF job.kind = "all" THEN FALSE ELSE isRetryingAll

\* The Submit of retry job id is answered: with a job id, or not.
RetrySubmitAnswered(id) ==
    /\ \E job \in retryJobs :
          /\ KeyOf(job) = id
          /\ job.phase = "submit"
          /\ \/ /\ retryJobs' = (retryJobs \ {job}) \cup {[job EXCEPT !.phase = "poll"]}
                /\ event' = [kind |-> "retryAccepted", id |-> id]
                /\ UNCHANGED <<results, retryingIndices, isRetryingAll>>
             \/ /\ results' = FailCovered(results, job, RetrySubmitError)
                /\ Leave(job)
                /\ event' = [kind |-> "retrySubmitFailed", id |-> id]
    /\ UNCHANGED <<isScraping, retryFrame>>

\* A status poll of retry job id is answered with a job still running: the
\* poll counts, and the cap ends the retry.
RetryPolledRunning(id) ==
    /\ \E job \in retryJobs :
          /\ KeyOf(job) = id
          /\ job.phase = "poll"
          /\ IF job.polls + 1 >= RetryPollCap
             THEN /\ results' = FailCovered(results, job, RetryTimeoutError)
                  /\ Leave(job)
                  /\ event' = [kind |-> "retryTimeout", id |-> id]
             ELSE /\ retryJobs' = (retryJobs \ {job}) \cup {[job EXCEPT !.polls = @ + 1]}
                  /\ event' = [kind |-> "retryPolled", id |-> id]
                  /\ UNCHANGED <<results, retryingIndices, isRetryingAll>>
    /\ UNCHANGED <<isScraping, retryFrame>>

\* A status poll of retry job id is answered with the job completed, or failed.
RetryPolledTerminal(id) ==
    /\ \E job \in retryJobs :
          /\ KeyOf(job) = id
          /\ job.phase = "poll"
          /\ \/ \E outcomes \in [DOMAIN job.indexMap -> {"success", "error"}] :
                   /\ results' = Splice(results, job.indexMap, outcomes)
                   /\ event' = [kind |-> "retryCompleted", id |-> id, job |-> job.kind,
                                indexMap |-> job.indexMap, outcomes |-> outcomes]
             \/ /\ results' = FailCovered(results, job, RetryJobError)
                /\ event' = [kind |-> "retryFailed", id |-> id]
          /\ Leave(job)
    /\ UNCHANGED <<isScraping, retryFrame>>

\* The batches a completed main job leaves behind.
ResolvedSlot(r, status) ==
    [SnapshotEntry(status, OriginalData(r, "same")) EXCEPT !.originalExcelRow = r]

\* handleStartScraping in this setting: the batch is rebuilt, every slot
\* pending. A bulk submission and a retry exclude each other.
MainScrapeStarts ==
    /\ ~isScraping
    /\ retryJobs = {}
    /\ isScraping' = TRUE
    /\ results' = [k \in DOMAIN results |-> InitialSlot(k)]
    /\ event' = [kind |-> "submit", id |-> 0]
    /\ UNCHANGED <<retryVars, retryFrame>>

\* handlePollSuccess of the main job in this setting: a snapshot resolves slot k.
MainResolves ==
    /\ isScraping
    /\ \E k \in DOMAIN results, status \in {"success", "error"} :
          /\ results[k].status = "pending"
          /\ results' = [results EXCEPT ![k] = ResolvedSlot(k, status)]
    /\ event' = [kind |-> "resolve", id |-> 0]
    /\ UNCHANGED <<isScraping, retryVars, retryFrame>>

\* The terminal snapshot of the main job.
MainScrapeEnds ==
    /\ isScraping
    /\ isScraping' = FALSE
    /\ event' = [kind |-> "resolveStop", id |-> 0]
    /\ UNCHANGED <<results, retryVars, retryFrame>>

InitRetry ==
    /\ InitCommon
    /\ lastSnapshot = NoSnapshot
    /\ backendStatus = NoBackendStatus
    /\ \E statuses \in [1..RetrySlots -> {"success", "error"}] :
          results = [k \in 1..RetrySlots |-> ResolvedSlot(k, statuses[k])]

NextRetry ==
    \/ \E index \in 1..RetrySlots : RetryOneClick(index)
    \/ RetryAllClick
    \/ \E id \in 0..RetrySlots : RetrySubmitAnswered(id)
    \/ \E id \in 0..RetrySlots : RetryPolledRunning(id)
    \/ \E id \in 0..RetrySlots : RetryPolledTerminal(id)
    \/ MainScrapeStarts
    \/ MainResolves
    \/ MainScrapeEnds

SpecRetry == InitRetry /\ [][NextRetry]_vars

\* Every answer a retry job waits for arrives.
SpecRetryFair ==
    /\ SpecRetry
    /\ \A id \in 0..RetrySlots :
          /\ WF_vars(RetrySubmitAnswered(id))
          /\ WF_vars(RetryPolledRunning(id) \/ RetryPolledTerminal(id))

(***************************************************************************)
(* Properties of usePolling, checked under SpecPolling                     *)
(***************************************************************************)

\* C1: at most one pollFn call of the instance is outstanding in every
\* reachable state, also across a disable / re-enable or a restart.
AtMostOneOutstanding == Cardinality(inflight) <= 1

\* C30: the busy flag is accurate in every reachable state: isPollingRef is
\* true exactly while a pollFn call of the instance is outstanding.
BusyFlagIsAccurate == hook.isPollingRef <=> inflight # {}

\* stopPolling has cleared the busy flag while a pollFn call is outstanding.
BusyFlagClearedWhileOutstanding ==
    /\ event.kind = "disable"
    /\ ~hook.isPollingRef
    /\ Cardinality(inflight) = 1

\* C2: when a call that was outstanding at a disablement settles, the poller
\* sets neither data nor error and invokes neither onSuccess nor onError.
SettleAfterDisableMutatesNothing ==
    [][\A f \in inflight :
          (f.id \in stale /\ f \notin inflight')
             => /\ hook'.data = hook.data
                /\ hook'.error = hook.error
                /\ calls' = calls]_vars

StopKinds ==
    {"disable", "resolveStop", "tickTimeout", "maxDurationTimeout", "tickStop", "unmount"}

\* C6: whenever the poller is not polling, and after every stop (disablement,
\* shouldStop returning true, maxDuration exceeded, unmount), none of the
\* interval, the max-duration timeout and the initial-delay timeout is pending.
StoppedPollerHasNoTimer ==
    (~hook.isPolling \/ event.kind \in StopKinds) => NoTimerArmed

\* shouldStop stopped a run that had armed all three timers, props still enabled.
StoppedByShouldStop ==
    /\ event.kind = "resolveStop"
    /\ hook.mountedRef
    /\ props.enabled
    /\ props.maxDuration # Null
    /\ ~hook.isPolling
    /\ NoTimerArmed

\* C7: a rejection of pollFn while the instance is enabled invokes onError,
\* leaves every timer as it is, releases the busy flag and leaves the poller
\* able to start a call at the next tick.
RejectionKeepsPolling ==
    [][(event'.kind = "reject" /\ inflight' # inflight /\ hook.mountedRef /\ props.enabled)
          => /\ calls'.onError = calls.onError + 1
             /\ calls'.onSuccess = calls.onSuccess
             /\ hook'.error = "fetch"
             /\ hook'.intervalRef = hook.intervalRef
             /\ hook'.timeoutRef = hook.timeoutRef
             /\ hook'.initialTimeoutRef = hook.initialTimeoutRef
             /\ hook'.isPolling = hook.isPolling
             /\ hook'.startTimeRef = hook.startTimeRef
             /\ CanPoll(hook')]_vars

\* After a rejection was reported, a tick of the same run started a new call.
TickPollsAfterRejection ==
    /\ event.kind = "tickPoll"
    /\ calls.onError > 0
    /\ hook.error = "fetch"
    /\ hook.isPolling
    /\ Cardinality(inflight) = 1

\* C23: once maxDuration is exceeded and the instance has stopped with the
\* timeout error, no fetch starts and the error stays the timeout error until
\* polling is restarted, also when a fetch outstanding at the timeout settles.
TimeoutErrorStays ==
    [][(/\ event.kind \in {"maxDurationTimeout", "tickTimeout"}
        /\ hook.error = "timeout"
        /\ event'.kind \notin {"props", "disable", "unmount"})
          => /\ hook'.error = "timeout"
             /\ inflight' \subseteq inflight]_vars

\* The max-duration timeout stopped the instance while a fetch is outstanding.
TimedOutWithFetchOutstanding ==
    /\ event.kind = "maxDurationTimeout"
    /\ hook.error = "timeout"
    /\ ~hook.isPolling
    /\ NoTimerArmed
    /\ inflight # {}

(***************************************************************************)
(* Properties of the merge, checked under SpecMerge                        *)
(***************************************************************************)

Resolved(slot) == slot.status \in {"success", "error"}

\* C3: a merge never takes a slot from success or error back to pending; a
\* pending slot stays pending or becomes success or error.
MergeIsMonotonic ==
    [][\A i \in 1..Len(results) :
          /\ i <= Len(results')
          /\ Resolved(results[i]) => Resolved(results'[i])
          /\ results'[i].status \in Statuses]_vars

\* A resolved slot met a pending snapshot entry and is still resolved.
ResolvedSlotMetPendingEntry ==
    /\ event.kind = "merge"
    /\ \E i \in 1..Len(lastSnapshot.statuses) :
          /\ lastSnapshot.statuses[i] = "pending"
          /\ i <= Len(results)
          /\ Resolved(results[i])

\* The fields of a slot with the product as content, not as object identity.
Content(slot) == [slot EXCEPT !.product = IF @ = NoProduct THEN @ ELSE "product"]

Contents(res) == [i \in DOMAIN res |-> Content(res[i])]

\* C4: merging the snapshot merged last once more changes no field of any
\* slot, and merging another parse of the same response changes no content.
MergeIsIdempotent ==
    event.kind = "merge" =>
       /\ MergeResults(results, lastSnapshot).results = results
       /\ Contents(MergeResults(NewParse(results), lastSnapshot).results)
             = Contents(results)

\* A snapshot with resolved, pending and new entries has been merged.
MergedMixedSnapshot ==
    /\ event.kind = "merge"
    /\ \E i, j \in 1..Len(lastSnapshot.statuses) :
          /\ lastSnapshot.statuses[i] = "success"
          /\ lastSnapshot.statuses[j] = "pending"
          /\ results[j].status = "pending"
    /\ \E i \in 1..Len(results) : results[i].originalExcelRow = 0

\* C5: the merge signals a change only if a slot differs after it, and
\* returns the previous results otherwise.
ChangeSignalledOnlyOnDifference ==
    [][event'.kind = "merge" =>
          /\ lastChanged' => Contents(results') # Contents(results)
          /\ ~lastChanged' => Contents(results') = Contents(results)]_vars

\* C9: every merge leaves originalExcelRow of every slot as it was.
MergeKeepsExcelRow ==
    [][\A i \in 1..Len(results) :
          /\ i <= Len(results')
          /\ results'[i].originalExcelRow = results[i].originalExcelRow]_vars

\* A merge resolved a slot from a snapshot entry and the slot has its Excel row.
ResolvedSlotHasExcelRow ==
    /\ event.kind = "merge"
    /\ \E i \in 1..Len(results) :
          /\ i <= Len(lastSnapshot.statuses)
          /\ lastSnapshot.statuses[i] = results[i].status
          /\ Resolved(results[i])
          /\ results[i].product = "last" \/ results[i].status = "error"
          /\ results[i].originalExcelRow = i

(***************************************************************************)
(* Properties of BulkUploadForm, checked under Spec                        *)
(***************************************************************************)

\* C8: a failed status fetch of the job being polled is not fatal: after
\* handlePollError the job id is still set and isScraping is still true, so
\* the poller stays enabled for that job.
PollErrorIsNotFatal ==
    [][\A f \in inflight :
          (/\ event'.kind = "reject"
           /\ event'.id = f.id
           /\ f \notin inflight'
           /\ isScraping
           /\ jobId # 0
           /\ f.job = jobId
           /\ props.enabled)
             => /\ isScraping'
                /\ jobId' = jobId
                /\ FormProps(jobId', isScraping').enabled]_vars

\* A status fetch of the job being polled failed and the form left Polling.
PollErrorEndedPolling ==
    /\ event.kind = "reject"
    /\ ~isScraping
    /\ jobId = 0
    /\ renderedJobId # 0
    /\ props.enabled
    /\ \E i \in 1..Len(results) : results[i].status = "pending"

\* C10: when a Submit request fails, isScraping is false and jobId is null
\* afterwards, and every slot of the batch is an error slot that carries the
\* message of that failure.
SubmitFailureFailsEverySlot ==
    [][(event'.kind = "submitFailed" /\ Len(submit') < Len(submit) /\ nextJob' = nextJob)
          => /\ ~isScraping'
             /\ jobId' = 0
             /\ \A i \in 1..Len(results') :
                   /\ results'[i].status = "error"
                   /\ results'[i].error = event'.message]_vars

\* C11: when the bulk endpoint answers a Submit OK, the answer carries a job
\* id, handleStartScraping stores it, and the poller is enabled for that job.
AcceptedSubmitStartsPolling ==
    [][(/\ Len(submit') < Len(submit)
        /\ \/ event'.kind = "submitAccepted"
           \/ (event'.kind = "submitFailed" /\ event'.answer \in OkAnswers))
          => /\ event'.kind = "submitAccepted"
             /\ jobId' = event'.id
             /\ jobId' # 0
             /\ FormProps(jobId', isScraping').enabled]_vars

\* The endpoint answered OK without a job id and the batch was failed.
OkAnswerWithoutJobId ==
    /\ event.kind = "submitFailed"
    /\ event.answer = "okResults"
    /\ jobId = 0
    /\ ~isScraping
    /\ \E i \in 1..Len(results) : results[i].error = "No job ID returned"

\* C12: when handlePollSuccess handles a snapshot whose job status is failed,
\* polling stops, no slot is pending afterwards, and the slots that were
\* resolved already keep their result.
FailedJobFailsPendingSlots ==
    [][\A f \in inflight :
          (/\ event'.kind = "resolveStop"
           /\ event'.id = f.id
           /\ f \notin inflight'
           /\ jobIdRef # 0
           /\ server[f.job].status = "failed")
             => /\ ~hook'.isPolling
                /\ hook'.intervalRef # "live"
                /\ \A i \in 1..Len(results') : results'[i].status # "pending"
                /\ \A i \in 1..Len(results) :
                      Resolved(results[i]) => Content(results'[i]) = Content(results[i])]_vars

\* A failed job ended the lifecycle and left a slot pending.
FailedJobLeftSlotPending ==
    /\ event.kind = "resolveStop"
    /\ ~isScraping
    /\ jobId = 0
    /\ jobIdRef = 0
    /\ \E j \in 1..Len(server) : server[j].status = "failed"
    /\ \E i \in 1..Len(results) : results[i].status = "pending"

StatusesOf(res) == [i \in DOMAIN res |-> res[i].status]

\* C13: when a status response of the job being polled is handled, the slots
\* afterwards are the merge of the snapshots of that job seen so far, which
\* is its latest snapshot as the job only resolves items; a response with status
\* completed is merged in the same step that stops the poller and ends the
\* lifecycle with isScraping false and jobId null.
PollMergesThenCompletes ==
    [][\A f \in inflight :
          (/\ event'.kind \in {"resolve", "resolveStop"}
           /\ event'.id = f.id
           /\ f \notin inflight'
           /\ isScraping
           /\ jobId = f.job
           /\ jobIdRef = f.job)
             => /\ StatusesOf(results') = server[f.job].statuses
                /\ server[f.job].status = "running" =>
                      /\ isScraping'
                      /\ jobId' = jobId
                /\ server[f.job].status = "completed" =>
                      /\ \A i \in 1..Len(results') : Resolved(results'[i])
                      /\ ~isScraping'
                      /\ jobId' = 0
                      /\ ~hook'.isPolling
                      /\ hook'.intervalRef # "live"
                      /\ hook'.initialTimeoutRef # "live"]_vars

\* The second status response of a job reported it completed, with its slot
\* in success, and ended the lifecycle.
CompletedAfterTwoPolls ==
    /\ event.kind = "resolveStop"
    /\ calls.onSuccess = 2
    /\ calls.onError = 0
    /\ scrapeProgress = 100
    /\ Len(results) = 1
    /\ results[1].status = "success"
    /\ results[1].originalExcelRow = 2
    /\ ~isScraping
    /\ jobId = 0
    /\ ~hook.isPolling

\* C14: once a status response reported a job completed or failed, no status
\* fetch is started for that job again and no callback of a fetch of that job
\* changes the lifecycle (isScraping, jobId, jobIdRef) again; the response for
\* which shouldStop returns true stops the poller and clears its timers,
\* whatever enabled is.
TerminalJobIsNeverPolledAgain ==
    [][/\ \A f \in inflight' \ inflight : f.job \notin terminalSeen
       /\ \A f \in inflight \ inflight' :
             f.job \in terminalSeen =>
                <<isScraping, jobId, jobIdRef>>' = <<isScraping, jobId, jobIdRef>>
       /\ (event'.kind = "resolveStop" /\ inflight' # inflight) =>
             /\ ~hook'.isPolling
             /\ hook'.intervalRef # "live"
             /\ hook'.initialTimeoutRef # "live"
             /\ hook'.timeoutRef # "live"]_vars

\* The poller was stopped by shouldStop for the job it polls while its enabled
\* input is still true.
StoppedWhileStillEnabled ==
    /\ event.kind = "resolveStop"
    /\ renderedJobId \in terminalSeen
    /\ props.enabled
    /\ hook.enabledRef
    /\ ~hook.isPolling
    /\ NoTimerArmed

\* C20: a pending entry of the snapshot leaves an existing slot as it was in
\* every field, and a pending entry without a slot appends one pending slot.
PendingEntryLeavesSlot ==
    [][event'.kind = "merge" =>
          /\ Len(results') >= Len(lastSnapshot'.statuses)
          /\ \A i \in 1..Len(lastSnapshot'.statuses) :
                lastSnapshot'.statuses[i] = "pending" =>
                   IF i <= Len(results)
                   THEN Content(results'[i]) = Content(results[i])
                   ELSE /\ results'[i].status = "pending"
                        /\ Len(results') <= Len(lastSnapshot'.statuses)]_vars

\* A pending slot met a pending entry whose originalData the route rebuilt
\* with other content: the slot holds the route's originalData.
PendingSlotTookRouteData ==
    /\ event.kind = "merge"
    /\ \E i \in 1..Len(lastSnapshot.statuses) :
          /\ lastSnapshot.statuses[i] = "pending"
          /\ i <= Len(results)
          /\ results[i].status = "pending"
          /\ results[i].originalData # InitialSlot(i).originalData
          /\ results[i].originalExcelRow = i

\* C22: a merge never shortens results: the slots beyond the end of a shorter
\* snapshot stay in place as they were, and the batch grows only to the
\* length of a longer snapshot.
MergeNeverShrinks ==
    [][event'.kind = "merge" =>
          LET n == Len(lastSnapshot'.statuses)
          IN /\ Len(results') = IF n > Len(results) THEN n ELSE Len(results)
             /\ \A i \in (n + 1)..Len(results) :
                   Content(results'[i]) = Content(results[i])]_vars

\* A snapshot shorter than the batch was merged, and the resolved slot beyond
\* its end is still there.
ShorterSnapshotMerged ==
    /\ event.kind = "merge"
    /\ Len(lastSnapshot.statuses) < Len(results)
    /\ Resolved(results[Len(results)])
    /\ results[1].status = lastSnapshot.statuses[1]

\* C25: a merge never overwrites a slot that is already resolved with
\* different data: the slot keeps its status, product, error and payload.
ResolvedSlotIsNeverOverwritten ==
    [][event'.kind = "merge" =>
          \A i \in 1..Len(results) :
             Resolved(results[i]) => Content(results'[i]) = Content(results[i])]_vars

\* Slots in error met a snapshot carrying the same errors: the merge kept the
\* batch and signalled no change.
ErrorSlotsMetSameErrors ==
    /\ event.kind = "merge"
    /\ ~lastChanged
    /\ Len(results) = Len(lastSnapshot.statuses)
    /\ \A i \in 1..Len(results) :
          results[i].status = "error" /\ lastSnapshot.statuses[i] = "error"

(***************************************************************************)
(* More properties of BulkUploadForm, checked under Spec                   *)
(***************************************************************************)

\* C24: a status response fetched for a job that is no longer the current
\* job (jobIdRef was cleared, or holds a newer job) changes neither results,
\* nor the progress, nor the lifecycle.
StaleResponseMutatesNothing ==
    [][\A f \in inflight \ inflight' :
          (event'.kind \in {"resolve", "resolveStop"} /\ event'.id = f.id
           /\ f.job # jobIdRef)
             => UNCHANGED <<results, scrapeProgress, isScraping, jobId, jobIdRef>>]_vars

\* A status response arrived after the job id was cleared and the guard of
\* handlePollSuccess dropped it: the batch still holds its pending slot.
StaleResponseDropped ==
    /\ event.kind = "resolve"
    /\ jobIdRef = 0
    /\ jobId = 0
    /\ ~isScraping
    /\ Len(results) > 0
    /\ results[1].status = "pending"

PolledJobEventuallyLeaves ==
    (/\ isScraping
     /\ jobId # 0
     /\ server[jobId].status # "running"
     /\ nextFetch <= MaxFetches)
       ~> (~isScraping /\ jobId = 0 /\ ~hook.isPolling /\ NoTimerArmed)

\* A job left Polling on its failed status: the only status response was the
\* terminal one.
FailedJobLeftPolling ==
    /\ event.kind = "resolveStop"
    /\ calls.onSuccess = 1
    /\ server[1].status = "failed"
    /\ terminalSeen = {1}
    /\ ~isScraping
    /\ jobId = 0
    /\ ~hook.isPolling
    /\ NoTimerArmed

\* C28: whenever isScraping is false (no retry is ever in flight in the form
\* alone), no slot of the batch is pending.
IdleBatchIsResolved ==
    ~isScraping => \A i \in 1..Len(results) : results[i].status # "pending"

\* The lifecycle ended with a slot still pending.
PendingSlotAtExit ==
    /\ ~isScraping
    /\ jobId = 0
    /\ Len(results) > 0
    /\ results[1].status = "pending"

\* C29: when no uploaded row is a valid product, handleStartScraping sends no
\* Submit request, starts no poller and no status fetch, empties the batch and
\* leaves the lifecycle idle: isScraping false and jobId null.
NoValidProductSendsNothing ==
    [][(/\ event' # event
        /\ event'.kind \in {"submit", "noValidProducts"}
        /\ \A r \in DOMAIN excelData : ~excelData[r])
          => /\ submit' = submit
             /\ nextJob' = nextJob
             /\ ~isScraping'
             /\ jobId' = 0
             /\ jobIdRef' = 0
             /\ results' = <<>>
             /\ ~props'.enabled
             /\ ~hook'.isPolling
             /\ inflight' \subseteq inflight]_vars

\* A file without a valid product was started after an earlier batch had run:
\* the batch is emptied and nothing was sent for it.
StartedWithoutValidProduct ==
    /\ event.kind = "noValidProducts"
    /\ \A r \in DOMAIN excelData : ~excelData[r]
    /\ Len(submit) = 1
    /\ terminalSeen = {1}
    /\ results = <<>>
    /\ ~isScraping
    /\ jobId = 0

(***************************************************************************)
(* Properties of the retries, checked under SpecRetry                      *)
(***************************************************************************)

\* C15: at any instant each slot index has at most one retry in flight: no
\* retry job is started for an index that is in retryingIndices, so none can
\* start for it before the index is removed.
ExclusiveRetry ==
    [][/\ \A i \in 1..RetrySlots :
             Cardinality({job \in retryJobs' : i \in Covered(job)}) <= 1
       /\ \A job \in retryJobs' \ retryJobs :
             job.phase = "submit" => Covered(job) \cap retryingIndices = {}]_vars

\* A retry of index i is being polled and the Retry button of row i, rendered
\* for the pending slot, is disabled by nothing but the registry.
RetryButtonHeldByRegistry ==
    \E job \in retryJobs :
       /\ job.kind = "one" /\ job.phase = "poll"
       /\ RetryOneShown(results, job.indexMap[1])
       /\ results[job.indexMap[1]].status = "pending"
       /\ RetryOneDisabled(job.indexMap[1])
       /\ ~isScraping /\ ~isRetryingAll

\* C16: a retry-all is not started while isScraping, while another retry-all
\* is in flight, or while a retry of an index it would include is in flight.
RetryAllIsExclusive ==
    [][\A job \in retryJobs' \ retryJobs :
          (job.kind = "all" /\ job.phase = "submit") =>
             /\ ~isScraping
             /\ ~isRetryingAll
             /\ \A other \in retryJobs :
                   other.kind # "all" /\ Covered(other) \cap Covered(job) = {}
             /\ Covered(job) \cap retryingIndices = {}]_vars

\* A retry-all started and its job is in flight: the button is still rendered
\* for the slots in error, and held by isRetryingAll alone.
RetryAllHeldWhileInFlight ==
    /\ \E job \in retryJobs : job.kind = "all" /\ job.indexMap # <<>>
    /\ RetryAllShown(results)
    /\ RetryAllDisabled
    /\ ~isScraping /\ retryingIndices = {}

\* C17: a retry-all submits exactly the slots in error, in batch order, and
\* result i of a completed retry job is written to the batch index the index
\* map holds at i; every slot outside the index map is left as it was.
RetryAllWritesThroughIndexMap ==
    [][/\ \A job \in retryJobs' \ retryJobs :
             (job.kind = "all" /\ job.phase = "submit") =>
                /\ \A i, j \in DOMAIN job.indexMap : i < j => job.indexMap[i] < job.indexMap[j]
                /\ Covered(job) = {k \in DOMAIN results : results[k].status = "error"}
       /\ (event'.kind = "retryCompleted" /\ retryJobs' # retryJobs) =>
             /\ \A i \in DOMAIN event'.indexMap :
                   results'[event'.indexMap[i]].status = event'.outcomes[i]
             /\ \A k \in DOMAIN results :
                   (\A i \in DOMAIN event'.indexMap : event'.indexMap[i] # k) =>
                      results'[k] = results[k]
             /\ DOMAIN results' = DOMAIN results]_vars

\* Batch [A(error), B(success), C(error), D(error)], retry response
\* [ok, fail, ok]: A success, B success, C error, D success.
RetryAllOfACD ==
    /\ event.kind = "retryCompleted"
    /\ event.job = "all"
    /\ event.indexMap = <<1, 3, 4>>
    /\ event.outcomes = <<"success", "error", "success">>
    /\ StatusesOf(results) = <<"success", "success", "error", "success">>

\* C18: every single-slot retry eventually removes its index from the
\* registry, whether its job succeeds, its Submit or its job fails, or the
\* polling cap is exhausted; the registry holds exactly the indices of the
\* single-slot retries in flight, so it is empty when no retry is in flight.
RegistryIsEventuallyLeft ==
    /\ \A i \in 1..RetrySlots : (i \in retryingIndices) ~> (i \notin retryingIndices)
    /\ [](retryingIndices = UNION {Covered(job) : job \in {j \in retryJobs : j.kind = "one"}})

\* Slot 3 was retried after the main job completed, and its job returned
\* success: the slot is in success and the registry is empty.
RetriedSlotToSuccess ==
    /\ event.kind = "retryCompleted"
    /\ event.job = "one"
    /\ event.indexMap = <<3>>
    /\ event.outcomes = <<"success">>
    /\ results[3].status = "success"
    /\ retryJobs = {}
    /\ retryingIndices = {}
    /\ ~isScraping

\* C21: a single-slot retry is started only for a slot in error, and never
\* while isScraping or while a retry-all is running.
RetryOneNeedsErrorSlot ==
    [][\A job \in retryJobs' \ retryJobs :
          (job.kind = "one" /\ job.phase = "submit") =>
             /\ results[job.indexMap[1]].status = "error"
             /\ results'[job.indexMap[1]].status = "pending"
             /\ ~isScraping
             /\ ~isRetryingAll]_vars

\* A retry of a slot was just started, next to another slot in error whose
\* Retry button is enabled.
RetryOneJustStarted ==
    /\ event.kind = "retryOne"
    /\ event.id \in retryingIndices
    /\ results[event.id].status = "pending"
    /\ \E k \in DOMAIN results :
          /\ k # event.id
          /\ results[k].status = "error"
          /\ ~RetryOneDisabled(k)

(***************************************************************************)
(* Properties of the status route, checked under SpecRoute                 *)
(***************************************************************************)

\* C19: the results of a status response are as many as the backend's
\* results and aligned with them by index; entry i is pending exactly when
\* the backend's entry i is null, and every other entry is success or error.
StatusRouteIsAligned ==
    routeResponse # NoResponse =>
       /\ Len(routeResponse.results) = Len(backendStatus.results)
       /\ \A i \in DOMAIN backendStatus.results :
             /\ routeResponse.results[i].status = "pending"
                   <=> backendStatus.results[i] = NullResult
             /\ backendStatus.results[i] # NullResult
                   => routeResponse.results[i].status \in {"success", "error"}
             /\ routeResponse.results[i].originalData = i

\* A response to a status with a null entry, then a product whose processing
\* threw: a pending entry, then an entry in error.
RouteAnsweredMixedStatus ==
    /\ routeResponse # NoResponse
    /\ Len(backendStatus.results) = 2
    /\ backendStatus.results[1] = NullResult
    /\ routeResponse.results[1].status = "pending"
    /\ backendStatus.results[2].status = "success"
    /\ routeResponse.results[2].status = "error"
    /\ routeResponse.results[2].error = ProcessingError

====
